---- MODULE Spec2Model ----
(***************************************************************************)
(* Model of the quiz-competition backend (src/server.js).                  *)
(*                                                                         *)
(* The relational store is three tables (users, questions, attempts); the  *)
(* process keeps the in-memory session registry `sessions`.  Every route   *)
(* handler is an async function: the code between two `await pool.query`   *)
(* calls runs without interruption, and other requests may run between two *)
(* queries of the same handler.  A handler is therefore one action per     *)
(* query; `reqs` is the bag of the handlers suspended at an await, each    *)
(* with its local variables and the query it resumes at.                   *)
(***************************************************************************)
EXTENDS Integers, Sequences, FiniteSets, Bags, TLC

VARIABLES users, questions, nextQuestionId, attempts, sessions, now, reqs, last, nreq

vars == <<users, questions, nextQuestionId, attempts, sessions, now, reqs, last, nreq>>

(***************************************************************************)
(* Bounds of the model.                                                    *)
(***************************************************************************)
MaxInFlight == 2      \* handlers suspended at an await at the same time
MaxRequests == 4      \* requests received in one behaviour
MaxAttempts == 2      \* rows of the attempts table
MaxQuestionId == 3    \* values handed out by the questions id sequence
MaxTime == 1          \* readings of the clock (Date.now() / NOW())
MaxBoardRows == 3     \* rows of the attempts table when the leaderboard is read

\* server.js:180 sets QUIZ_LENGTH to 50.  The handlers use the value only in
\* the comparison of server.js:183 and the slice of server.js:187, so the
\* model scales it down together with the question pool.
QUIZ_LENGTH == 2

NULL == -1            \* SQL NULL of an integer or timestamp column

Options == {"A", "B"}

(***************************************************************************)
(* Small helpers.                                                          *)
(***************************************************************************)
Range(s) == {s[i] : i \in 1..Len(s)}

IsInjective(s) == \A i, j \in 1..Len(s) : s[i] = s[j] => i = j

\* All orders in which a store may return the rows of the set S.
Orderings(S) == {s \in [1..Cardinality(S) -> S] : Range(s) = S}

(***************************************************************************)
(* bcrypt: hash(password) and compare(password, hash).                     *)
(***************************************************************************)
bcryptHash(password) == <<"$2b$10$", password>>

bcryptCompare(password, hash) == hash = bcryptHash(password)

(***************************************************************************)
(* Decimal text of the ids, as JSON.stringify / parseInt / the JSON column *)
(* decoder see them.                                                       *)
(***************************************************************************)
Digits == <<"1", "2", "3", "4", "5", "6", "7", "8", "9">>

NumToStr(n) == IF n = 0 THEN "0" ELSE Digits[n]

\* parseInt(token): NaN (modelled as 0, which filter(Boolean) drops as well)
\* for a token that is not a number.
parseInt(tok) ==
    IF \E n \in 1..Len(Digits) : Digits[n] = tok
    THEN CHOOSE n \in 1..Len(Digits) : Digits[n] = tok
    ELSE 0

RECURSIVE JSONStringifyItems(_)
JSONStringifyItems(ids) ==
    IF ids = <<>> THEN <<>>
    ELSE IF Len(ids) = 1 THEN <<NumToStr(ids[1])>>
    ELSE <<NumToStr(ids[1]), ",">> \o JSONStringifyItems(Tail(ids))

\* JSON.stringify(ids) for an array of ids: the tokens of "[3,1]".
JSONStringify(ids) == <<"[">> \o JSONStringifyItems(ids) \o <<"]">>

RECURSIVE JSONParseItems(_)
JSONParseItems(text) ==
    IF text = <<>> THEN <<>>
    ELSE IF Head(text) \in {"[", ",", "]"} THEN JSONParseItems(Tail(text))
    ELSE <<parseInt(Head(text))>> \o JSONParseItems(Tail(text))

\* The driver's decoding of a json column into an array.
JSONParse(text) == JSONParseItems(text)

(***************************************************************************)
(* Rows of the store.                                                      *)
(***************************************************************************)
UserRow(id, email, password, role, status) ==
    [id |-> id, full_name |-> email, email |-> email,
     password_hash |-> bcryptHash(password), role |-> role, quiz_status |-> status]

QuestionRow(id, text, correct) ==
    [id |-> id, question_text |-> text, option_a |-> "a", option_b |-> "b",
     option_c |-> "c", option_d |-> "d", correct_option |-> correct]

AttemptRow(id, userId, text, t) ==
    [id |-> id, user_id |-> userId, shuffled_questions |-> text,
     status |-> "started", score |-> NULL, created_at |-> t, end_time |-> NULL]

Emails == {"admin@q", "s2@q", "s3@q", "nobody@q"}

Passwords == {"p1", "p2"}

\* Session tokens: `s_${user.id}_${Date.now()}`.
Token(userId, t) == <<userId, t>>

NoSid == <<>>                 \* no x-session-id header and no sessionId parameter
ForgedSid == <<0, 0>>         \* a token that login never minted
InheritedSid == <<0, 1>>      \* the token "constructor", which login never minted

\* `sessions` is a plain object (server.js:21): besides the entries that
\* login stores, sessions[name] is defined for the names every object
\* inherits from Object.prototype ("constructor", "toString", ...); the value
\* is a function, which is truthy and has no userId and no role.
ObjectPrototype == {InheritedSid}

undefinedEntry == [userId |-> 0, role |-> "undefined"]

(***************************************************************************)
(* Suspended handlers and responses.                                       *)
(***************************************************************************)
NoLocals ==
    [route |-> "none", pc |-> "start", sid |-> NoSid, userId |-> 0, userRole |-> "",
     fullName |-> "", email |-> "", password |-> "", user |-> UserRow(0, "", "", "", ""),
     all |-> {}, ids |-> <<>>, attemptId |-> 0,
     hasAnswers |-> FALSE, answers |-> <<>>, score |-> 0,
     totalParticipants |-> 0, totalQuestions |-> 0, completedQuizzes |-> 0]

NoResponse ==
    [route |-> "none", sid |-> NoSid, status |-> 0, message |-> "",
     sessionId |-> NoSid, role |-> "", attemptId |-> 0, questionIds |-> <<>>,
     items |-> <<>>, rows |-> <<>>, score |-> NULL,
     totalParticipants |-> 0, totalQuestions |-> 0, completedQuizzes |-> 0]

Respond(route, sid, status, message) ==
    [NoResponse EXCEPT !.route = route, !.sid = sid, !.status = status,
                       !.message = message]

\* Another handler may be suspended.
CanSuspend == BagCardinality(reqs) < MaxInFlight

\* The bag of suspended handlers after a new one is suspended, after the
\* handler r resumes and is suspended again as r2, and after r has ended.
Suspend(r2) == reqs (+) SetToBag({r2})

Resume(r, r2) == (reqs (-) SetToBag({r})) (+) SetToBag({r2})

Finish(r) == reqs (-) SetToBag({r})

\* The handler r took a step; the handler r2 was suspended by the step.
Left(r) == CopiesIn(r, reqs') < CopiesIn(r, reqs)

Entered(r2) == CopiesIn(r2, reqs') > CopiesIn(r2, reqs)

CanReceive == nreq < MaxRequests

(***************************************************************************)
(* Auth helpers (server.js:28-45).                                         *)
(***************************************************************************)
\* sessions[sessionId]
SessionEntry(sid) == IF sid \in DOMAIN sessions THEN sessions[sid] ELSE undefinedEntry

\* The request passes isLoggedIn: sessionId and sessions[sessionId] are truthy.
isLoggedIn(sid) == sid # NoSid /\ (sid \in DOMAIN sessions \/ sid \in ObjectPrototype)

\* The reply of isLoggedIn to a request it stops: a redirect to '/' for a
\* client that accepts html, 401 otherwise.
Unauthorized(route, sid, acceptsHtml) ==
    IF acceptsHtml THEN Respond(route, sid, 302, "/")
    ELSE Respond(route, sid, 401, "Unauthorized")

isAdmin(userRole) == userRole = "admin"

Forbidden(route, sid) == Respond(route, sid, 403, "Admin access required")

\* A handler has no try/catch around a query or statement that throws: the
\* promise is rejected outside the handler.  The framework either answers
\* 500 from its default error handler or never answers, depending on its
\* version.
ThrowOutcomes == {"hang", "http500"}

Throw(route, sid, outcome) ==
    IF outcome = "http500" THEN Respond(route, sid, 500, "Internal Server Error")
    ELSE Respond(route, sid, 0, "unhandled rejection")

\* Tokens of the requests: the minted ones, none, and one that is no
\* property of `sessions` at all.
SidInputs == DOMAIN sessions \cup {NoSid, ForgedSid}

\* The same with a token that names an inherited property.
HeaderInputs == SidInputs \cup ObjectPrototype

(***************************************************************************)
(* Initial state: the process has just started (no session), the store     *)
(* holds the seeded accounts and the seeded question pool.                 *)
(***************************************************************************)
Init ==
    /\ users = << UserRow(1, "admin@q", "p1", "admin", "unattempted"),
                  UserRow(2, "s2@q", "p2", "student", "unattempted"),
                  UserRow(3, "s3@q", "p1", "student", "disqualified") >>
    /\ questions = {QuestionRow(1, "Q", "A"), QuestionRow(2, "Q", "B")}
    /\ nextQuestionId = 3
    /\ attempts = <<>>
    /\ sessions = <<>>
    /\ now = 0
    /\ reqs = EmptyBag
    /\ last = NoResponse
    /\ nreq = 0

(***************************************************************************)
(* The clock advances.                                                     *)
(***************************************************************************)
Tick ==
    /\ now < MaxTime
    /\ now' = now + 1
    /\ UNCHANGED <<users, questions, nextQuestionId, attempts, sessions, reqs, last, nreq>>

(***************************************************************************)
(* POST /register (server.js:49-67).                                       *)
(***************************************************************************)
\* Body fields of the registration requests; "" is a missing field.
RegisterNames == {"", "N"}

RegisterEmails == {"", "new@q", "n2@q"}

RegisterPasswords == {"", "p1"}

\* The unique constraint on users.email: the INSERT of a row with this email
\* is rejected with SQLSTATE 23505.
EmailExists(email) == \E i \in 1..Len(users) : users[i].email = email

\* The row of the INSERT of server.js:56-59; the id is the next of the
\* table's sequence.
NewUser(fullName, email, hash) ==
    [id |-> Len(users) + 1, full_name |-> fullName, email |-> email,
     password_hash |-> hash, role |-> "student", quiz_status |-> "unattempted"]

\* A catch block that does not look at the error code.
RegistrationErrorAlways500(code) ==
    Respond("register", NoSid, 500, "Registration error")

\* The catch block of server.js:61-66.
RegistrationError(code) ==
    IF code = "23505"
    THEN Respond("register", NoSid, 409, "Email already exists")
    ELSE Respond("register", NoSid, 500, "Registration error")

\* The request is validated and bcrypt.hash is awaited.
RegisterHash(fullName, email, password) ==
    /\ CanReceive
    /\ nreq' = nreq + 1
    /\ IF fullName = "" \/ email = "" \/ password = ""
       THEN /\ last' = Respond("register", NoSid, 400, "All fields required")
            /\ UNCHANGED reqs
       ELSE /\ CanSuspend
            /\ reqs' = Suspend(
                          [NoLocals EXCEPT !.route = "register", !.pc = "insert",
                                       !.fullName = fullName, !.email = email,
                                       !.password = password])
            /\ UNCHANGED last
    /\ UNCHANGED <<users, questions, nextQuestionId, attempts, sessions, now>>

\* The hash has resolved: the INSERT and the response.
RegisterInsert(r) ==
    /\ r.route = "register" /\ r.pc = "insert"
    /\ IF EmailExists(r.email)
       THEN /\ last' = RegistrationError("23505")
            /\ UNCHANGED users
       ELSE /\ users' = Append(users, NewUser(r.fullName, r.email, bcryptHash(r.password)))
            /\ last' = Respond("register", NoSid, 200, "Registered successfully")
    /\ reqs' = Finish(r)
    /\ UNCHANGED <<questions, nextQuestionId, attempts, sessions, now, nreq>>

(***************************************************************************)
(* POST /login (server.js:69-91).                                          *)
(***************************************************************************)
\* Rows of: SELECT ... FROM users WHERE email = $1
SelectUserByEmail(email) == SelectSeq(users, LAMBDA u : u.email = email)

\* The refusal without the 'disqualified' status.
LoginRefusedCompletedOnly(user) ==
    user.role = "student" /\ user.quiz_status = "completed"

LoginRefused(user) ==
    user.role = "student" /\ user.quiz_status \in {"completed", "disqualified"}

\* First query of the handler and the checks that follow it.
LoginSelect(email, password) ==
    /\ CanReceive
    /\ nreq' = nreq + 1
    /\ LET rows == SelectUserByEmail(email) IN
       IF rows = <<>>
       THEN /\ last' = Respond("login", NoSid, 401, "Invalid login")
            /\ UNCHANGED reqs
       ELSE IF LoginRefused(rows[1])
       THEN /\ last' = Respond("login", NoSid, 403, "Quiz already completed")
            /\ UNCHANGED reqs
       ELSE /\ CanSuspend
            /\ reqs' = Suspend(
                          [NoLocals EXCEPT !.route = "login", !.pc = "compare",
                                       !.password = password, !.user = rows[1]])
            /\ UNCHANGED last
    /\ UNCHANGED <<users, questions, nextQuestionId, attempts, sessions, now>>

\* bcrypt.compare has resolved: mint the session or refuse.
LoginCompare(r) ==
    /\ r.route = "login" /\ r.pc = "compare"
    /\ LET sessionId == Token(r.user.id, now)
       IN IF ~bcryptCompare(r.password, r.user.password_hash)
          THEN /\ last' = Respond("login", NoSid, 401, "Invalid login")
               /\ UNCHANGED sessions
          ELSE /\ sessions' = [t \in DOMAIN sessions \cup {sessionId} |->
                                 IF t = sessionId
                                 THEN [userId |-> r.user.id, role |-> r.user.role]
                                 ELSE sessions[t]]
               /\ last' = [NoResponse EXCEPT !.route = "login", !.status = 200,
                                             !.sessionId = sessionId,
                                             !.role = r.user.role]
    /\ reqs' = Finish(r)
    /\ UNCHANGED <<users, questions, nextQuestionId, attempts, now, nreq>>

(***************************************************************************)
(* POST /logout (server.js:93-97): only the header is read.                *)
(***************************************************************************)
Logout(sid) ==
    /\ CanReceive
    /\ nreq' = nreq + 1
    /\ sessions' = IF sid # NoSid
                   THEN [t \in DOMAIN sessions \ {sid} |-> sessions[t]]
                   ELSE sessions
    /\ last' = Respond("logout", sid, 200, "Logged out")
    /\ UNCHANGED <<users, questions, nextQuestionId, attempts, now, reqs>>

(***************************************************************************)
(* POST /student/start-quiz (server.js:178-197).                           *)
(***************************************************************************)
\* all.map(q => q.id).sort(() => 0.5 - Math.random()).slice(0, QUIZ_LENGTH):
\* the first QUIZ_LENGTH entries of some permutation of the pool.
\* A draw with replacement.
ShuffleWithRepeats(all) == [1..QUIZ_LENGTH -> all]

Shuffle(all) ==
    {SubSeq(p, 1, IF Len(p) < QUIZ_LENGTH THEN Len(p) ELSE QUIZ_LENGTH) : p \in Orderings(all)}

\* The pool check off by one.
NotEnoughQuestionsOffByOne(all) == Cardinality(all) < QUIZ_LENGTH - 1

\* all.length < QUIZ_LENGTH
NotEnoughQuestions(all) == Cardinality(all) < QUIZ_LENGTH

StartsInFlight ==
    LET S == {r \in DOMAIN reqs : r.route = "start-quiz"}
    IN BagCardinality([r \in S |-> reqs[r]])

StartQuizSelect(sid) ==
    /\ CanReceive
    /\ nreq' = nreq + 1
    /\ IF ~isLoggedIn(sid)
       THEN /\ \E acceptsHtml \in BOOLEAN :
                 last' = Unauthorized("start-quiz", sid, acceptsHtml)
            /\ UNCHANGED reqs
       ELSE LET all == {q.id : q \in questions} IN
            IF NotEnoughQuestions(all)
            THEN /\ last' = Respond("start-quiz", sid, 400, "Not enough questions")
                 /\ UNCHANGED reqs
            ELSE /\ CanSuspend
                 /\ Len(attempts) + StartsInFlight < MaxAttempts
                 /\ \E ids \in Shuffle(all) :
                      reqs' = Suspend(
                                 [NoLocals EXCEPT !.route = "start-quiz", !.pc = "update_user",
                                              !.sid = sid,
                                              !.userId = SessionEntry(sid).userId,
                                              !.userRole = SessionEntry(sid).role,
                                              !.all = all, !.ids = ids])
                 /\ UNCHANGED last
    /\ UNCHANGED <<users, questions, nextQuestionId, attempts, sessions, now>>

\* An UPDATE without its WHERE clause.
UpdateQuizStatusOfEveryUser(status, userId) ==
    [i \in 1..Len(users) |-> [users[i] EXCEPT !.quiz_status = status]]

\* UPDATE users SET quiz_status = $1 WHERE id = $2
UpdateQuizStatus(status, userId) ==
    [i \in 1..Len(users) |->
       IF users[i].id = userId THEN [users[i] EXCEPT !.quiz_status = status]
       ELSE users[i]]

StartQuizUpdateUser(r) ==
    /\ r.route = "start-quiz" /\ r.pc = "update_user"
    /\ users' = UpdateQuizStatus("started", r.userId)
    /\ reqs' = Resume(r, [r EXCEPT !.pc = "insert"])
    /\ UNCHANGED <<questions, nextQuestionId, attempts, sessions, now, last, nreq>>

StartQuizInsert(r) ==
    /\ r.route = "start-quiz" /\ r.pc = "insert"
    /\ LET id == Len(attempts) + 1
       IN /\ attempts' = Append(attempts, AttemptRow(id, r.userId, JSONStringify(r.ids), now))
          /\ last' = [NoResponse EXCEPT !.route = "start-quiz", !.sid = r.sid,
                                        !.status = 200, !.attemptId = id,
                                        !.questionIds = r.ids]
    /\ reqs' = Finish(r)
    /\ UNCHANGED <<users, questions, nextQuestionId, sessions, now, nreq>>

(***************************************************************************)
(* GET /questions (server.js:200-211).                                     *)
(***************************************************************************)
\* Tokens of the ids parameter: the decimal ids, "0" and the empty token.
CsvTokens == {NumToStr(n) : n \in 0..MaxQuestionId} \cup {""}

\* req.query.ids.split(','): the parameter as its comma-separated tokens,
\* for lists as long as an attempt's list.
CsvInputs == UNION {[1..n -> CsvTokens] : n \in 1..QUIZ_LENGTH}

\* Query strings: <<ids is present, its tokens>>.
QuestionsQueries == {<<FALSE, <<>>>>} \cup {<<TRUE, tokens>> : tokens \in CsvInputs}

\* .map(id => parseInt(id)).filter(Boolean)
ParseIdArray(tokens) ==
    SelectSeq([i \in 1..Len(tokens) |-> parseInt(tokens[i])], LAMBDA n : n # 0)

\* SELECT id,question_text,option_a,option_b,option_c,option_d
QuestionView(q) ==
    [id |-> q.id, question_text |-> q.question_text, option_a |-> q.option_a,
     option_b |-> q.option_b, option_c |-> q.option_c, option_d |-> q.option_d]

undefined == [id |-> 0, question_text |-> "", option_a |-> "", option_b |-> "",
              option_c |-> "", option_d |-> ""]

\* result.rows.find(q => q.id === id)
Find(rows, id) ==
    IF \E i \in 1..Len(rows) : rows[i].id = id
    THEN rows[CHOOSE i \in 1..Len(rows) :
                /\ rows[i].id = id
                /\ \A j \in 1..Len(rows) : rows[j].id = id => i <= j]
    ELSE undefined

\* idArray.map(id => result.rows.find(...)) followed by .filter(Boolean)
OrderRows(idArray, rows) ==
    SelectSeq([i \in 1..Len(idArray) |-> Find(rows, idArray[i])],
              LAMBDA q : q # undefined)

GetQuestions(sid, hasIds, tokens) ==
    /\ CanReceive
    /\ nreq' = nreq + 1
    /\ IF ~isLoggedIn(sid)
       THEN \E acceptsHtml \in BOOLEAN : last' = Unauthorized("questions", sid, acceptsHtml)
       ELSE LET idArray == ParseIdArray(tokens) IN
            IF ~hasIds \/ idArray = <<>>
            THEN \* req.query.ids is undefined, or the statement is "... IN ()"
                 \E outcome \in ThrowOutcomes : last' = Throw("questions", sid, outcome)
            ELSE \E rows \in Orderings({QuestionView(q) : q \in
                                          {x \in questions : x.id \in Range(idArray)}}) :
                   last' = [NoResponse EXCEPT !.route = "questions", !.sid = sid,
                                              !.status = 200,
                                              !.items = OrderRows(idArray, rows)]
    /\ UNCHANGED <<users, questions, nextQuestionId, attempts, sessions, now, reqs>>

(***************************************************************************)
(* POST /student/submit-answers (server.js:213-254).                       *)
(***************************************************************************)
\* The lookup without its status condition.
SelectAttemptAnyStatus(attemptId, userId) ==
    SelectSeq(attempts, LAMBDA a : a.id = attemptId /\ a.user_id = userId)

\* SELECT shuffled_questions FROM attempts WHERE id=$1 AND user_id=$2 AND status=$3
SelectStartedAttempt(attemptId, userId) ==
    SelectSeq(attempts, LAMBDA a : a.id = attemptId /\ a.user_id = userId
                                   /\ a.status = "started")

QuestionIds == 1..MaxQuestionId

\* req.body.answers when present: an object from question ids to choices,
\* for the ids of the seeded questions.
AnswerInputs == UNION {[D -> Options] : D \in SUBSET (1..QUIZ_LENGTH)}

\* Request bodies: <<answers is present, answers>>.
SubmitBodies == {<<FALSE, <<>>>>} \cup {<<TRUE, a>> : a \in AnswerInputs}

\* The loop of server.js:234-240 over the attempt's ids; `map` holds the
\* correct option of every question that the second query returned.
Score(ids, answers, map) ==
    Cardinality({i \in 1..Len(ids) :
                   /\ ids[i] \in DOMAIN answers
                   /\ ids[i] \in DOMAIN map
                   /\ answers[ids[i]] = map[ids[i]]})

\* SELECT id,correct_option FROM questions WHERE id IN (...), as the object
\* built at server.js:235-236.
CorrectMap(ids) ==
    LET correct == {q \in questions : q.id \in Range(ids)}
    IN [id \in {q.id : q \in correct} |->
          (CHOOSE q \in correct : q.id = id).correct_option]

SubmitSelect(sid, attemptId, hasAnswers, answers) ==
    /\ CanReceive
    /\ nreq' = nreq + 1
    /\ IF ~isLoggedIn(sid)
       THEN /\ \E acceptsHtml \in BOOLEAN :
                 last' = Unauthorized("submit-answers", sid, acceptsHtml)
            /\ UNCHANGED reqs
       ELSE LET rows == SelectStartedAttempt(attemptId, SessionEntry(sid).userId) IN
            IF rows = <<>>
            THEN /\ last' = Respond("submit-answers", sid, 200, "Quiz already submitted.")
                 /\ UNCHANGED reqs
            ELSE /\ CanSuspend
                 /\ reqs' = Suspend(
                               [NoLocals EXCEPT !.route = "submit-answers",
                                            !.pc = "select_correct", !.sid = sid,
                                            !.userId = SessionEntry(sid).userId,
                                            !.userRole = SessionEntry(sid).role,
                                            !.attemptId = attemptId,
                                            !.hasAnswers = hasAnswers,
                                            !.answers = answers,
                                            !.ids = JSONParse(rows[1].shuffled_questions)])
                 /\ UNCHANGED last
    /\ UNCHANGED <<users, questions, nextQuestionId, attempts, sessions, now>>

SubmitSelectCorrect(r) ==
    /\ r.route = "submit-answers" /\ r.pc = "select_correct"
    /\ IF ~r.hasAnswers
       THEN \* answers[id] on undefined: TypeError in the scoring loop
            /\ \E outcome \in ThrowOutcomes : last' = Throw("submit-answers", r.sid, outcome)
            /\ reqs' = Finish(r)
       ELSE /\ reqs' = Resume(r, [r EXCEPT !.pc = "update_attempt",
                                   !.score = Score(r.ids, r.answers, CorrectMap(r.ids))])
            /\ UNCHANGED last
    /\ UNCHANGED <<users, questions, nextQuestionId, attempts, sessions, now, nreq>>

\* An UPDATE that does not stamp the end time.
UpdateAttemptNoEndTime(score, attemptId) ==
    [i \in 1..Len(attempts) |->
       IF attempts[i].id = attemptId
       THEN [attempts[i] EXCEPT !.score = score, !.status = "completed"]
       ELSE attempts[i]]

\* UPDATE attempts SET score=$1,status=$2,end_time=NOW() WHERE id=$3
UpdateAttempt(score, attemptId) ==
    [i \in 1..Len(attempts) |->
       IF attempts[i].id = attemptId
       THEN [attempts[i] EXCEPT !.score = score, !.status = "completed", !.end_time = now]
       ELSE attempts[i]]

SubmitUpdateAttempt(r) ==
    /\ r.route = "submit-answers" /\ r.pc = "update_attempt"
    /\ attempts' = UpdateAttempt(r.score, r.attemptId)
    /\ reqs' = Resume(r, [r EXCEPT !.pc = "update_user"])
    /\ UNCHANGED <<users, questions, nextQuestionId, sessions, now, last, nreq>>

\* An acknowledgment that carries the score.
SubmitResponseWithScore(sid, score) ==
    [Respond("submit-answers", sid, 200, "Quiz submitted successfully!")
       EXCEPT !.score = score]

SubmitResponse(sid, score) ==
    Respond("submit-answers", sid, 200, "Quiz submitted successfully!")

SubmitUpdateUser(r) ==
    /\ r.route = "submit-answers" /\ r.pc = "update_user"
    /\ users' = UpdateQuizStatus("completed", r.userId)
    /\ last' = SubmitResponse(r.sid, r.score)
    /\ reqs' = Finish(r)
    /\ UNCHANGED <<questions, nextQuestionId, attempts, sessions, now, nreq>>

(***************************************************************************)
(* Admin question routes (server.js:151-174).                              *)
(***************************************************************************)
\* GET /admin/questions: SELECT * FROM questions ORDER BY id DESC
OrderByIdDesc(S) ==
    CHOOSE o \in Orderings(S) : \A i, j \in 1..Len(o) : i < j => o[i].id > o[j].id

AdminListQuestions(sid) ==
    /\ CanReceive
    /\ nreq' = nreq + 1
    /\ IF ~isLoggedIn(sid)
       THEN \E acceptsHtml \in BOOLEAN :
              last' = Unauthorized("list-questions", sid, acceptsHtml)
       ELSE IF ~isAdmin(SessionEntry(sid).role)
       THEN last' = Forbidden("list-questions", sid)
       ELSE last' = [NoResponse EXCEPT !.route = "list-questions", !.sid = sid,
                                       !.status = 200,
                                       !.items = OrderByIdDesc(questions)]
    /\ UNCHANGED <<users, questions, nextQuestionId, attempts, sessions, now, reqs>>

AdminCreateQuestion(sid, questionText, correctOption) ==
    /\ CanReceive
    /\ nreq' = nreq + 1
    /\ IF ~isLoggedIn(sid)
       THEN /\ \E acceptsHtml \in BOOLEAN :
                 last' = Unauthorized("create-question", sid, acceptsHtml)
            /\ UNCHANGED <<questions, nextQuestionId>>
       ELSE IF ~isAdmin(SessionEntry(sid).role)
       THEN /\ last' = Forbidden("create-question", sid)
            /\ UNCHANGED <<questions, nextQuestionId>>
       ELSE IF questionText = "" \/ correctOption = ""
       THEN /\ last' = Respond("create-question", sid, 400, "All fields required")
            /\ UNCHANGED <<questions, nextQuestionId>>
       ELSE /\ nextQuestionId <= MaxQuestionId
            /\ questions' = questions \cup
                              {QuestionRow(nextQuestionId, questionText, correctOption)}
            /\ nextQuestionId' = nextQuestionId + 1
            /\ last' = Respond("create-question", sid, 200, "Question added")
    /\ UNCHANGED <<users, attempts, sessions, now, reqs>>

AdminDeleteQuestion(sid, id) ==
    /\ CanReceive
    /\ nreq' = nreq + 1
    /\ IF ~isLoggedIn(sid)
       THEN /\ \E acceptsHtml \in BOOLEAN :
                 last' = Unauthorized("delete-question", sid, acceptsHtml)
            /\ UNCHANGED questions
       ELSE IF ~isAdmin(SessionEntry(sid).role)
       THEN /\ last' = Forbidden("delete-question", sid)
            /\ UNCHANGED questions
       ELSE /\ questions' = {q \in questions : q.id # id}
            /\ last' = Respond("delete-question", sid, 200, "Question deleted")
    /\ UNCHANGED <<users, nextQuestionId, attempts, sessions, now, reqs>>

(***************************************************************************)
(* Admin reporting (server.js:100-146 and 257-268).                        *)
(***************************************************************************)
UserById(id) == users[CHOOSE i \in 1..Len(users) : users[i].id = id]

\* attempts a JOIN users u ON a.user_id = u.id WHERE a.status = 'completed'
CompletedJoin ==
    {i \in 1..Len(attempts) :
       /\ attempts[i].status = "completed"
       /\ \E j \in 1..Len(users) : users[j].id = attempts[i].user_id}

\* An ORDER BY without the second key.
OrderByScoreOnly(S) ==
    {o \in Orderings(S) :
       \A i, j \in 1..Len(o) :
          i < j => attempts[o[i]].score >= attempts[o[j]].score}

\* ORDER BY a.score DESC, a.end_time ASC: every order of the rows that the
\* clause allows (rows equal in both keys may come in any order).
OrderByScoreEndTime(S) ==
    {o \in Orderings(S) :
       \A i, j \in 1..Len(o) :
          i < j => \/ attempts[o[i]].score > attempts[o[j]].score
                   \/ /\ attempts[o[i]].score = attempts[o[j]].score
                      /\ attempts[o[i]].end_time <= attempts[o[j]].end_time}

\* server.js:264 limits the leaderboard to 10 rows; the model scales the
\* limit down together with the attempts table.
LEADERBOARD_LIMIT == 2

\* LIMIT 10
Limit(o, n) == SubSeq(o, 1, IF Len(o) < n THEN Len(o) ELSE n)

ResultRow(i) ==
    [full_name |-> UserById(attempts[i].user_id).full_name,
     email |-> UserById(attempts[i].user_id).email,
     score |-> attempts[i].score,
     created_at |-> attempts[i].created_at,
     end_time |-> attempts[i].end_time]

LeaderboardRow(i) ==
    [full_name |-> UserById(attempts[i].user_id).full_name,
     score |-> attempts[i].score,
     created_at |-> attempts[i].created_at]

LeaderboardData(sid) ==
    /\ CanReceive
    /\ nreq' = nreq + 1
    /\ IF ~isLoggedIn(sid)
       THEN \E acceptsHtml \in BOOLEAN :
              last' = Unauthorized("leaderboard-data", sid, acceptsHtml)
       ELSE IF ~isAdmin(SessionEntry(sid).role)
       THEN last' = Forbidden("leaderboard-data", sid)
       ELSE \E o \in OrderByScoreEndTime(CompletedJoin) :
              last' = [NoResponse EXCEPT
                         !.route = "leaderboard-data", !.sid = sid, !.status = 200,
                         !.rows = [k \in 1..Len(Limit(o, LEADERBOARD_LIMIT)) |->
                                     LeaderboardRow(o[k])]]
    /\ UNCHANGED <<users, questions, nextQuestionId, attempts, sessions, now, reqs>>

\* First query of GET /admin/metrics, after the two middlewares.
MetricsCountUsers(sid) ==
    /\ CanReceive
    /\ nreq' = nreq + 1
    /\ IF ~isLoggedIn(sid)
       THEN /\ \E acceptsHtml \in BOOLEAN :
                 last' = Unauthorized("metrics", sid, acceptsHtml)
            /\ UNCHANGED reqs
       ELSE IF ~isAdmin(SessionEntry(sid).role)
       THEN /\ last' = Forbidden("metrics", sid)
            /\ UNCHANGED reqs
       ELSE /\ CanSuspend
            /\ reqs' = Suspend(
                          [NoLocals EXCEPT !.route = "metrics", !.pc = "count_questions",
                                       !.sid = sid,
                                       !.userId = SessionEntry(sid).userId,
                                       !.userRole = SessionEntry(sid).role,
                                       !.totalParticipants = Len(users)])
            /\ UNCHANGED last
    /\ UNCHANGED <<users, questions, nextQuestionId, attempts, sessions, now>>

MetricsCountQuestions(r) ==
    /\ r.route = "metrics" /\ r.pc = "count_questions"
    /\ reqs' = Resume(r, [r EXCEPT !.pc = "count_completed",
                                   !.totalQuestions = Cardinality(questions)])
    /\ UNCHANGED <<users, questions, nextQuestionId, attempts, sessions, now, last, nreq>>

MetricsCountCompleted(r) ==
    /\ r.route = "metrics" /\ r.pc = "count_completed"
    /\ reqs' = Resume(r, [r EXCEPT !.pc = "results",
                                   !.completedQuizzes =
                                      Cardinality({i \in 1..Len(attempts) :
                                                     attempts[i].status = "completed"})])
    /\ UNCHANGED <<users, questions, nextQuestionId, attempts, sessions, now, last, nreq>>

MetricsResults(r) ==
    /\ r.route = "metrics" /\ r.pc = "results"
    /\ \E o \in OrderByScoreEndTime(CompletedJoin) :
         last' = [NoResponse EXCEPT
                    !.route = "metrics", !.sid = r.sid, !.status = 200,
                    !.totalParticipants = r.totalParticipants,
                    !.totalQuestions = r.totalQuestions,
                    !.completedQuizzes = r.completedQuizzes,
                    !.rows = [k \in 1..Len(o) |-> ResultRow(o[k])]]
    /\ reqs' = Finish(r)
    /\ UNCHANGED <<users, questions, nextQuestionId, attempts, sessions, now, nreq>>

(***************************************************************************)
(* Store failures: a pool.query call is rejected (the store is down, the   *)
(* connection is lost).  The rejection is thrown at the `await`.           *)
(***************************************************************************)
\* Routes whose first statement after the middlewares is a query, with the
\* middlewares they are registered with.
QueryFirstRoutes ==
    {"login", "start-quiz", "questions", "submit-answers", "list-questions",
     "create-question", "delete-question", "leaderboard-data", "metrics"}

RoutesBehindIsLoggedIn == QueryFirstRoutes \ {"login"}

RoutesBehindIsAdmin ==
    {"list-questions", "create-question", "delete-question", "leaderboard-data", "metrics"}

\* What the handler of the route does with a rejected query: the catch
\* blocks of server.js:61-66 and server.js:142-145; no other handler has one.
StoreFailureResponses(route, sid) ==
    IF route = "register" THEN {RegistrationError("08006")}
    ELSE IF route = "metrics"
    THEN {Respond("metrics", sid, 500, "Failed to load admin metrics")}
    ELSE {Throw(route, sid, outcome) : outcome \in ThrowOutcomes}

\* The first query of a handler is rejected.
FirstQueryFails(route, sid) ==
    /\ CanReceive
    /\ nreq' = nreq + 1
    /\ route \in RoutesBehindIsLoggedIn => isLoggedIn(sid)
    /\ route \in RoutesBehindIsAdmin => isAdmin(SessionEntry(sid).role)
    /\ route = "login" => sid = NoSid
    /\ \E response \in StoreFailureResponses(route, sid) : last' = response
    /\ UNCHANGED <<users, questions, nextQuestionId, attempts, sessions, now, reqs>>

\* The query at which a suspended handler resumes is rejected.  (A login
\* handler is suspended at bcrypt.compare, which is no query.)
QueryFails(r) ==
    /\ r.route \in {"register", "start-quiz", "submit-answers", "metrics"}
    /\ \E response \in StoreFailureResponses(r.route, r.sid) : last' = response
    /\ reqs' = Finish(r)
    /\ UNCHANGED <<users, questions, nextQuestionId, attempts, sessions, now, nreq>>

Next ==
    \/ Tick
    \/ \E route \in QueryFirstRoutes, sid \in SidInputs : FirstQueryFails(route, sid)
    \/ \E r \in DOMAIN reqs : QueryFails(r)
    \/ \E fullName \in RegisterNames, email \in RegisterEmails, password \in RegisterPasswords :
         RegisterHash(fullName, email, password)
    \/ \E r \in DOMAIN reqs : RegisterInsert(r)
    \/ \E email \in Emails, password \in Passwords : LoginSelect(email, password)
    \/ \E r \in DOMAIN reqs : LoginCompare(r)
    \/ \E sid \in SidInputs : Logout(sid)
    \/ \E sid \in SidInputs : StartQuizSelect(sid)
    \/ \E r \in DOMAIN reqs : StartQuizUpdateUser(r)
    \/ \E r \in DOMAIN reqs : StartQuizInsert(r)
    \/ \E sid \in SidInputs, query \in QuestionsQueries :
         GetQuestions(sid, query[1], query[2])
    \/ \E sid \in SidInputs, attemptId \in 1..MaxAttempts, body \in SubmitBodies :
         SubmitSelect(sid, attemptId, body[1], body[2])
    \/ \E r \in DOMAIN reqs : SubmitSelectCorrect(r)
    \/ \E r \in DOMAIN reqs : SubmitUpdateAttempt(r)
    \/ \E r \in DOMAIN reqs : SubmitUpdateUser(r)
    \/ \E sid \in SidInputs, questionText \in {"", "Q"}, correctOption \in Options \cup {""} :
         AdminCreateQuestion(sid, questionText, correctOption)
    \/ \E sid \in SidInputs, id \in QuestionIds : AdminDeleteQuestion(sid, id)
    \/ \E sid \in SidInputs : AdminListQuestions(sid)
    \/ \E sid \in SidInputs : LeaderboardData(sid)
    \/ \E sid \in SidInputs : MetricsCountUsers(sid)
    \/ \E r \in DOMAIN reqs : MetricsCountQuestions(r)
    \/ \E r \in DOMAIN reqs : MetricsCountCompleted(r)
    \/ \E r \in DOMAIN reqs : MetricsResults(r)

Spec == Init /\ [][Next]_vars

(***************************************************************************)
(* The quiz lifecycle on its own: login, start-quiz and submit-answers     *)
(* requests in every interleaving of their queries.                        *)
(***************************************************************************)
NextQuiz ==
    \/ \E email \in Emails, password \in Passwords : LoginSelect(email, password)
    \/ \E r \in DOMAIN reqs : LoginCompare(r)
    \/ \E sid \in SidInputs : StartQuizSelect(sid)
    \/ \E r \in DOMAIN reqs : StartQuizUpdateUser(r)
    \/ \E r \in DOMAIN reqs : StartQuizInsert(r)
    \/ \E sid \in SidInputs, attemptId \in 1..MaxAttempts, body \in SubmitBodies :
         SubmitSelect(sid, attemptId, body[1], body[2])
    \/ \E r \in DOMAIN reqs : SubmitSelectCorrect(r)
    \/ \E r \in DOMAIN reqs : SubmitUpdateAttempt(r)
    \/ \E r \in DOMAIN reqs : SubmitUpdateUser(r)

SpecQuiz == Init /\ [][NextQuiz]_vars

(***************************************************************************)
(* The question pool: start-quiz and the reads of the questions against    *)
(* the admin's create and delete requests.                                 *)
(***************************************************************************)
NextPool ==
    \/ \E email \in Emails, password \in Passwords : LoginSelect(email, password)
    \/ \E r \in DOMAIN reqs : LoginCompare(r)
    \/ \E sid \in SidInputs : StartQuizSelect(sid)
    \/ \E r \in DOMAIN reqs : StartQuizUpdateUser(r)
    \/ \E r \in DOMAIN reqs : StartQuizInsert(r)
    \/ \E sid \in SidInputs, query \in QuestionsQueries :
         GetQuestions(sid, query[1], query[2])
    \/ \E sid \in SidInputs, questionText \in {"", "Q"}, correctOption \in Options \cup {""} :
         AdminCreateQuestion(sid, questionText, correctOption)
    \/ \E sid \in SidInputs, id \in QuestionIds : AdminDeleteQuestion(sid, id)

SpecPool == Init /\ [][NextPool]_vars

(***************************************************************************)
(* Scores: the quiz lifecycle together with the two routes that report     *)
(* scores.                                                                 *)
(***************************************************************************)
NextScores ==
    \/ NextQuiz
    \/ \E sid \in SidInputs : LeaderboardData(sid)
    \/ \E sid \in SidInputs : MetricsCountUsers(sid)
    \/ \E r \in DOMAIN reqs : MetricsCountQuestions(r)
    \/ \E r \in DOMAIN reqs : MetricsCountCompleted(r)
    \/ \E r \in DOMAIN reqs : MetricsResults(r)

SpecScores == Init /\ [][NextScores]_vars

(***************************************************************************)
(* The leaderboard on its own, read from a store that holds the attempts   *)
(* of up to MaxBoardRows students (one attempt each, started or completed  *)
(* with some score at some time) while the admin is logged in.  Nothing    *)
(* writes the store here, so the requests do not interleave with others.   *)
(***************************************************************************)
StudentEmails == <<"s2@q", "s3@q", "s4@q", "s5@q", "s6@q">>

BoardScores == 0..1

BoardTimes == 0..1

\* The attempt of student i + 1 as start-quiz created it, or as
\* submit-answers completed it.
BoardRows(i) ==
    LET a == AttemptRow(i, i + 1, JSONStringify(<<1, 2>>), 0)
    IN {a} \cup {[a EXCEPT !.status = "completed", !.score = sc, !.end_time = t] :
                   sc \in BoardScores, t \in BoardTimes}

InitBoard ==
    /\ attempts \in UNION {{a \in [1..n -> UNION {BoardRows(i) : i \in 1..n}] :
                               \A i \in 1..n : a[i] \in BoardRows(i)} :
                           n \in 1..MaxBoardRows}
    /\ users = [i \in 1..(Len(attempts) + 1) |->
                  IF i = 1 THEN UserRow(1, "admin@q", "p1", "admin", "unattempted")
                  ELSE UserRow(i, StudentEmails[i - 1], "p2", "student",
                               attempts[i - 1].status)]
    /\ questions = {QuestionRow(1, "Q", "A"), QuestionRow(2, "Q", "B")}
    /\ nextQuestionId = 3
    /\ sessions = (Token(1, 0) :> [userId |-> 1, role |-> "admin"])
    /\ now = 1
    /\ reqs = EmptyBag
    /\ last = NoResponse
    /\ nreq = 0

NextBoard == \E sid \in SidInputs : LeaderboardData(sid)

SpecBoard == InitBoard /\ [][NextBoard]_vars

(***************************************************************************)
(* Accounts: registrations in every interleaving, and the logins of the    *)
(* registered accounts.                                                    *)
(***************************************************************************)
NextRegister ==
    \/ \E fullName \in RegisterNames, email \in RegisterEmails, password \in RegisterPasswords :
         RegisterHash(fullName, email, password)
    \/ \E r \in DOMAIN reqs : RegisterInsert(r)
    \/ \E email \in RegisterEmails \cup {"s2@q"}, password \in Passwords :
         LoginSelect(email, password)
    \/ \E r \in DOMAIN reqs : LoginCompare(r)
    \/ Tick

SpecRegister == Init /\ [][NextRegister]_vars

(***************************************************************************)
(* The admin routes on their own, called with every kind of token.         *)
(***************************************************************************)
NextAdmin ==
    \/ \E email \in {"admin@q", "s2@q"}, password \in Passwords : LoginSelect(email, password)
    \/ \E r \in DOMAIN reqs : LoginCompare(r)
    \/ \E sid \in HeaderInputs : AdminListQuestions(sid)
    \/ \E sid \in HeaderInputs, questionText \in {"", "Q"}, correctOption \in Options \cup {""} :
         AdminCreateQuestion(sid, questionText, correctOption)
    \/ \E sid \in HeaderInputs, id \in QuestionIds : AdminDeleteQuestion(sid, id)
    \/ \E sid \in HeaderInputs : LeaderboardData(sid)
    \/ \E sid \in HeaderInputs : MetricsCountUsers(sid)
    \/ \E r \in DOMAIN reqs : MetricsCountQuestions(r)
    \/ \E r \in DOMAIN reqs : MetricsCountCompleted(r)
    \/ \E r \in DOMAIN reqs : MetricsResults(r)

SpecAdmin == Init /\ [][NextAdmin]_vars

(***************************************************************************)
(* Registration and the quiz lifecycle over a store whose queries may      *)
(* fail.                                                                   *)
(***************************************************************************)
NextFailures ==
    \/ \E email \in {"new@q"}, password \in {"p1"} : RegisterHash("N", email, password)
    \/ \E r \in DOMAIN reqs : RegisterInsert(r)
    \/ \E email \in {"admin@q", "s2@q", "new@q"} : LoginSelect(email, "p1")
    \/ \E r \in DOMAIN reqs : LoginCompare(r)
    \/ \E sid \in SidInputs : StartQuizSelect(sid)
    \/ \E r \in DOMAIN reqs : StartQuizUpdateUser(r)
    \/ \E r \in DOMAIN reqs : StartQuizInsert(r)
    \/ \E sid \in SidInputs, attemptId \in 1..MaxAttempts :
         SubmitSelect(sid, attemptId, TRUE, <<>>)
    \/ \E r \in DOMAIN reqs : SubmitSelectCorrect(r)
    \/ \E r \in DOMAIN reqs : SubmitUpdateAttempt(r)
    \/ \E r \in DOMAIN reqs : SubmitUpdateUser(r)
    \/ \E sid \in SidInputs : MetricsCountUsers(sid)
    \/ \E r \in DOMAIN reqs : MetricsCountQuestions(r)
    \/ \E r \in DOMAIN reqs : MetricsCountCompleted(r)
    \/ \E r \in DOMAIN reqs : MetricsResults(r)
    \/ \E route \in QueryFirstRoutes, sid \in SidInputs : FirstQueryFails(route, sid)
    \/ \E r \in DOMAIN reqs : QueryFails(r)

SpecFailures == Init /\ [][NextFailures]_vars

(***************************************************************************)
(* The session registry: logins and logouts while the clock advances, and  *)
(* requests for a route behind isLoggedIn with every kind of token.        *)
(***************************************************************************)
NextSessions ==
    \/ Tick
    \/ \E email \in {"admin@q", "s2@q"}, password \in Passwords : LoginSelect(email, password)
    \/ \E r \in DOMAIN reqs : LoginCompare(r)
    \/ \E sid \in HeaderInputs : Logout(sid)
    \/ \E sid \in HeaderInputs, tokens \in {<<"1">>, <<"2", "1">>} :
         GetQuestions(sid, TRUE, tokens)

SpecSessions == Init /\ [][NextSessions]_vars

(***************************************************************************)
(* Properties of the quiz lifecycle.                                       *)
(***************************************************************************)
UserIds == {users[i].id : i \in 1..Len(users)}

StartedAttemptsOf(userId) ==
    {i \in 1..Len(attempts) : attempts[i].user_id = userId /\ attempts[i].status = "started"}

CompletedAttemptsOf(userId) ==
    {i \in 1..Len(attempts) : attempts[i].user_id = userId /\ attempts[i].status = "completed"}

\* C1: in every reachable state each user owns at most one attempt whose
\* status is 'started'.
C1_AtMostOneStarted == \A u \in UserIds : Cardinality(StartedAttemptsOf(u)) <= 1

\* An attempt with the given id, owner and status 'started' exists.
AttemptMatches(attemptId, userId) ==
    \E i \in 1..Len(attempts) :
        /\ attempts[i].id = attemptId
        /\ attempts[i].user_id = userId
        /\ attempts[i].status = "started"

\* C2: a submit-answers request of a logged-in caller for which no attempt
\* matches (attemptId, caller, 'started') ends at its first query: it changes
\* no attempt and no user, starts no scoring, and is answered 200 with the
\* "already submitted" acknowledgment, whatever answers it carries.  (The
\* first and fourth conjuncts only select the steps that receive a
\* submit-answers request of the caller.)
C2_NoMatchIsNoOp ==
    [][\A sid \in SidInputs, attemptId \in 1..MaxAttempts :
         ( /\ nreq' = nreq + 1
           /\ isLoggedIn(sid)
           /\ ~AttemptMatches(attemptId, sessions[sid].userId)
           /\ \/ last'.route = "submit-answers" /\ last'.sid = sid
              \/ \E r2 \in DOMAIN reqs' :
                    r2.route = "submit-answers" /\ r2.sid = sid /\ Entered(r2)
           /\ \E body \in SubmitBodies : SubmitSelect(sid, attemptId, body[1], body[2]) )
         => /\ attempts' = attempts
            /\ users' = users
            /\ reqs' = reqs
            /\ last' = Respond("submit-answers", sid, 200, "Quiz already submitted.")]_vars

\* A second submission for a completed attempt of the caller was acknowledged.
C2_Witness ==
    /\ last.route = "submit-answers"
    /\ last.status = 200
    /\ last.message = "Quiz already submitted."
    /\ isLoggedIn(last.sid)
    /\ CompletedAttemptsOf(sessions[last.sid].userId) # {}

AttemptsOf(userId) == {i \in 1..Len(attempts) : attempts[i].user_id = userId}

\* C3: once a student's quiz_status is 'completed' it stays 'completed' and
\* no further attempt is created for that student.
C3_OneShot ==
    [][\A i \in 1..Len(users) :
         (users[i].role = "student" /\ users[i].quiz_status = "completed")
         => /\ users'[i].quiz_status = "completed"
            /\ AttemptsOf(users[i].id)' = AttemptsOf(users[i].id)]_vars

\* C4: a login request for a student whose quiz_status is 'completed' or
\* 'disqualified' is answered 403 whatever the password, adds no session and
\* leaves no handler behind that could add one.
C4_CompletedLoginForbidden ==
    [][\A email \in Emails, password \in Passwords :
         ( /\ nreq' = nreq + 1
           /\ \E i \in 1..Len(users) :
                /\ users[i].email = email
                /\ users[i].role = "student"
                /\ users[i].quiz_status \in {"completed", "disqualified"}
           /\ LoginSelect(email, password) )
         => /\ last'.route = "login"
            /\ last'.status = 403
            /\ sessions' = sessions
            /\ reqs' = reqs]_vars

\* A student who completed the quiz was refused at login.
C4_Witness ==
    /\ last.route = "login"
    /\ last.status = 403
    /\ \E i \in 1..Len(users) :
         users[i].role = "student" /\ users[i].quiz_status = "completed"

\* The claimed score: the ids of the persisted list whose submitted answer
\* equals the correct option of a question that exists now.
ClaimedScore(ids, answers) ==
    Cardinality({id \in Range(ids) :
                   /\ id \in DOMAIN answers
                   /\ \E q \in questions : q.id = id /\ q.correct_option = answers[id]})

\* C7: the scoring step of submit-answers never fails and computes the
\* claimed score, between 0 and QUIZ_LENGTH, and that score is the one
\* persisted.
C7_ScoreIsCount ==
    [][\A r \in DOMAIN reqs :
         /\ (r.route = "submit-answers" /\ r.pc = "select_correct" /\ Left(r))
            => LET r2 == [r EXCEPT !.pc = "update_attempt",
                                   !.score = ClaimedScore(r.ids, IF r.hasAnswers
                                                                 THEN r.answers ELSE <<>>)]
               IN /\ Entered(r2)
                  /\ r2.score \in 0..QUIZ_LENGTH
         /\ (r.route = "submit-answers" /\ r.pc = "update_attempt" /\ Left(r))
            => \E i \in 1..Len(attempts) :
                 /\ attempts[i].id = r.attemptId
                 /\ attempts'[i].score = r.score]_vars

(***************************************************************************)
(* Properties of the question pool.                                        *)
(***************************************************************************)
\* C5: a start-quiz request of a logged-in caller received while fewer than
\* QUIZ_LENGTH questions exist is answered 400, creates no attempt, starts
\* no handler that could create one, and leaves every quiz_status unchanged.
C5_NotEnoughQuestionsRejected ==
    [][\A sid \in SidInputs :
         ( /\ isLoggedIn(sid)
           /\ Cardinality(questions) < QUIZ_LENGTH
           /\ StartQuizSelect(sid) )
         => /\ last' = Respond("start-quiz", sid, 400, "Not enough questions")
            /\ attempts' = attempts
            /\ users' = users
            /\ reqs' = reqs]_vars

\* start-quiz was refused with one question short of QUIZ_LENGTH.
C5_Witness ==
    /\ last.route = "start-quiz"
    /\ last.status = 400
    /\ Cardinality(questions) = QUIZ_LENGTH - 1
    /\ attempts = <<>>

QuizStatusOf(userId) == UserById(userId).quiz_status

\* C6: a start-quiz request that passes the pool check draws QUIZ_LENGTH
\* pairwise distinct ids of questions that exist at the read; its second
\* query sets the caller's quiz_status to 'started'; its third appends
\* exactly one attempt, 'started', owned by the caller, whose persisted list
\* decodes to the drawn ids, and the response carries the same ids in the
\* same order together with the new attempt's id.
C6_StartQuizCreatesAttempt ==
    [][/\ \A r2 \in DOMAIN reqs' :
            (r2.route = "start-quiz" /\ r2.pc = "update_user" /\ Entered(r2))
            => /\ Len(r2.ids) = QUIZ_LENGTH
               /\ IsInjective(r2.ids)
               /\ Range(r2.ids) \subseteq {q.id : q \in questions}
               /\ isLoggedIn(r2.sid)
               /\ r2.userId = sessions[r2.sid].userId
       /\ \A r \in DOMAIN reqs :
            /\ (r.route = "start-quiz" /\ r.pc = "update_user" /\ Left(r))
               => /\ QuizStatusOf(r.userId)' = "started"
                  /\ Entered([r EXCEPT !.pc = "insert"])
            /\ (r.route = "start-quiz" /\ r.pc = "insert" /\ Left(r))
               => /\ Len(attempts') = Len(attempts) + 1
                  /\ SubSeq(attempts', 1, Len(attempts)) = attempts
                  /\ LET a == attempts'[Len(attempts')] IN
                       /\ a.status = "started"
                       /\ a.user_id = r.userId
                       /\ JSONParse(a.shuffled_questions) = r.ids
                       /\ last'.route = "start-quiz"
                       /\ last'.status = 200
                       /\ last'.attemptId = a.id
                       /\ last'.questionIds = JSONParse(a.shuffled_questions)]_vars

\* A quiz was started from a pool larger than QUIZ_LENGTH.
C6_Witness ==
    /\ last.route = "start-quiz"
    /\ last.status = 200
    /\ Len(attempts) >= 1
    /\ Cardinality(questions) > QUIZ_LENGTH
    /\ attempts[last.attemptId].status = "started"

ItemIds(items) == [k \in 1..Len(items) |-> items[k].id]

ExistingIds(idArray) ==
    SelectSeq(idArray, LAMBDA id : \E q \in questions : q.id = id)

\* C8: for every id list a logged-in caller supplies, GET /questions answers
\* 200 with the questions in the input order: the returned ids are the
\* input ids without those that have no row, and no item carries the
\* correct option.
C8_InputOrderPreserved ==
    [][\A sid \in SidInputs, tokens \in CsvInputs :
         ( /\ isLoggedIn(sid)
           /\ nreq' = nreq + 1
           /\ GetQuestions(sid, TRUE, tokens) )
         => /\ last'.status = 200
            /\ ItemIds(last'.items) = ExistingIds(ParseIdArray(tokens))
            /\ \A k \in 1..Len(last'.items) :
                 "correct_option" \notin DOMAIN last'.items[k]]_vars

\* The ids parameter that a client builds from a persisted list.
CsvOf(ids) == [k \in 1..Len(ids) |-> NumToStr(ids[k])]

\* C9: a read of an attempt's questions with its persisted list returns the
\* ids of the persisted list at the same positions, and the persisted list
\* of an attempt never changes.
C9_PersistedOrderReproduced ==
    [][/\ \A i \in 1..Len(attempts) :
            attempts'[i].shuffled_questions = attempts[i].shuffled_questions
       /\ \A sid \in SidInputs, i \in 1..Len(attempts) :
            ( /\ isLoggedIn(sid)
              /\ nreq' = nreq + 1
              /\ GetQuestions(sid, TRUE, CsvOf(JSONParse(attempts[i].shuffled_questions))) )
            => ItemIds(last'.items) = JSONParse(attempts[i].shuffled_questions)]_vars

(***************************************************************************)
(* Properties of the reported scores.                                      *)
(***************************************************************************)
\* C10: the response of a submit-answers request that scored is the same
\* acknowledgment whatever score was computed and carries no score, and a
\* response that carries scores (the score key or result rows) is only ever
\* sent to a caller whose session has the admin role.
C10_ScoreNotDisclosed ==
    [][/\ \A r \in DOMAIN reqs :
            (r.route = "submit-answers" /\ r.pc = "update_user" /\ Left(r))
            => last' = Respond("submit-answers", r.sid, 200, "Quiz submitted successfully!")
       /\ (last' # last /\ (last'.score # NULL \/ last'.rows # <<>>))
            => /\ isLoggedIn(last'.sid)
               /\ sessions[last'.sid].role = "admin"]_vars

\* A submission that scored above zero was acknowledged; its score is in
\* the store.
C10_Witness ==
    /\ last.route = "submit-answers"
    /\ last.message = "Quiz submitted successfully!"
    /\ \E i \in 1..Len(attempts) : attempts[i].status = "completed" /\ attempts[i].score > 0

(***************************************************************************)
(* Properties of the accounts.                                             *)
(***************************************************************************)
\* C11: no two users ever share an email; a registration whose INSERT finds
\* its email in the users table is answered 409 and leaves the table as it
\* is (so every registration after a successful one with the same email
\* fails with Conflict, users and emails being permanent); every row that is
\* added to the table is added at its end by a registration, with that
\* registration's name and email, a hash of its password, role 'student' and
\* quiz_status 'unattempted'; and no step removes a user or changes a
\* user's email or role.
C11_RegistrationUnique ==
    /\ [](\A i, j \in 1..Len(users) : users[i].email = users[j].email => i = j)
    /\ [][/\ \A r \in DOMAIN reqs :
               (r.route = "register" /\ Left(r))
               => IF \E i \in 1..Len(users) : users[i].email = r.email
                  THEN /\ last'.route = "register"
                       /\ last'.status = 409
                       /\ users' = users
                  ELSE /\ last'.route = "register"
                       /\ last'.status = 200
                       /\ users' = Append(users, users'[Len(users')])
                       /\ LET u == users'[Len(users')] IN
                            /\ u.full_name = r.fullName
                            /\ u.email = r.email
                            /\ bcryptCompare(r.password, u.password_hash)
                            /\ u.role = "student"
                            /\ u.quiz_status = "unattempted"
          /\ Len(users') >= Len(users)
          /\ \A i \in 1..Len(users) :
               /\ users'[i].email = users[i].email
               /\ users'[i].role = users[i].role
               /\ users'[i].id = users[i].id
          /\ Len(users') > Len(users)
               => \E r \in DOMAIN reqs : r.route = "register" /\ Left(r)]_vars

\* A registration was refused with 409 after another registration with the
\* same email had added its user (the registration requests carry no email
\* of a seeded account).
C11_Witness ==
    /\ last.route = "register"
    /\ last.status = 409
    /\ Len(users) = 4
    /\ users[Len(users)].role = "student"
    /\ users[Len(users)].quiz_status = "unattempted"

(***************************************************************************)
(* Properties of the reports.                                              *)
(***************************************************************************)
CompletedAttempts == {i \in 1..Len(attempts) : attempts[i].status = "completed"}

\* Attempt i ranks ahead of attempt j: higher score, or equal score and
\* earlier end time.
RanksAhead(i, j) ==
    \/ attempts[i].score > attempts[j].score
    \/ /\ attempts[i].score = attempts[j].score
       /\ attempts[i].end_time < attempts[j].end_time

NameOfOwner(i) ==
    users[CHOOSE u \in 1..Len(users) : users[u].id = attempts[i].user_id].full_name

\* C12: every leaderboard response lists LEADERBOARD_LIMIT rows, or all the
\* completed attempts when there are fewer; its rows are those of pairwise
\* different completed attempts (owner's name, score, creation time); no
\* listed attempt ranks ahead of one listed before it, and no completed
\* attempt that is left out ranks ahead of a listed one; the listed attempts
\* are the first rows of an order in which the metrics results query may
\* return the completed attempts.
C12_LeaderboardTopRows ==
    [][(nreq' = nreq + 1 /\ last'.route = "leaderboard-data" /\ last'.status = 200)
       => LET rows == last'.rows
              n == IF Cardinality(CompletedAttempts) < LEADERBOARD_LIMIT
                   THEN Cardinality(CompletedAttempts) ELSE LEADERBOARD_LIMIT
          IN /\ Len(rows) = n
             /\ \E sel \in [1..n -> CompletedAttempts] :
                  /\ IsInjective(sel)
                  /\ \A k \in 1..n :
                       rows[k] = [full_name |-> NameOfOwner(sel[k]),
                                  score |-> attempts[sel[k]].score,
                                  created_at |-> attempts[sel[k]].created_at]
                  /\ \A k, l \in 1..n : k < l => ~RanksAhead(sel[l], sel[k])
                  /\ \A i \in CompletedAttempts \ Range(sel), k \in 1..n :
                       ~RanksAhead(i, sel[k])
                  /\ \E o \in OrderByScoreEndTime(CompletedJoin) :
                       sel = SubSeq(o, 1, n)]_vars

\* A leaderboard of LEADERBOARD_LIMIT rows was read while more attempts were
\* completed, two of them with the same score and different end times.
C12_Witness ==
    /\ last.route = "leaderboard-data"
    /\ last.status = 200
    /\ Len(last.rows) = LEADERBOARD_LIMIT
    /\ Cardinality(CompletedAttempts) > LEADERBOARD_LIMIT
    /\ \E i, j \in CompletedAttempts :
         /\ attempts[i].score = attempts[j].score
         /\ attempts[i].end_time < attempts[j].end_time

(***************************************************************************)
(* Properties of the admin routes.                                         *)
(***************************************************************************)
AdminRoutes == {"metrics", "list-questions", "create-question", "delete-question",
                "leaderboard-data"}

\* The step receives a request for the route with the token: the request is
\* answered in the step, or its handler is suspended at its first query.
Received(route, sid) ==
    /\ nreq' = nreq + 1
    /\ \/ reqs' = reqs /\ last'.route = route /\ last'.sid = sid
       \/ \E r2 \in DOMAIN reqs' : Entered(r2) /\ r2.route = route /\ r2.sid = sid

StoreUnchanged ==
    /\ users' = users
    /\ questions' = questions
    /\ nextQuestionId' = nextQuestionId
    /\ attempts' = attempts

\* C13: a request for an admin route whose token is absent or is no token of
\* the session registry is answered Unauthorized (401, or the redirect to
\* the login page for a browser) and one whose session is not an admin's is
\* answered 403, in both cases at once and with the store unchanged (so
\* only a request with an admin's token is answered with data or reaches a
\* query); the questions table changes only in a step that receives a
\* create or delete request with an admin's token; and every suspended
\* handler of an admin route runs for an admin.
C13_AdminOnly ==
    [][/\ \A route \in AdminRoutes, sid \in HeaderInputs :
            Received(route, sid)
            => IF sid = NoSid \/ sid \notin DOMAIN sessions
               THEN /\ reqs' = reqs
                    /\ last'.status \in {401, 302}
                    /\ StoreUnchanged
               ELSE IF sessions[sid].role # "admin"
               THEN /\ reqs' = reqs
                    /\ last'.status = 403
                    /\ StoreUnchanged
               ELSE TRUE
       /\ (questions' # questions \/ nextQuestionId' # nextQuestionId)
            => \E sid \in DOMAIN sessions :
                 /\ sessions[sid].role = "admin"
                 /\ \/ Received("create-question", sid)
                    \/ Received("delete-question", sid)
       /\ \A r \in DOMAIN reqs :
            (r.route \in AdminRoutes /\ Left(r)) => r.userRole = "admin"]_vars

\* C14: a start-quiz request received with a session whose role is not
\* 'student' is rejected at once (its handler reaches no query), creates no
\* attempt and changes no quiz_status; every start-quiz handler that runs,
\* runs for a student.
C14_StartQuizStudentOnly ==
    [][/\ \A sid \in DOMAIN sessions :
            (sessions[sid].role # "student" /\ Received("start-quiz", sid))
            => /\ reqs' = reqs
               /\ last'.status \in {401, 403}
               /\ attempts' = attempts
               /\ users' = users
       /\ \A r \in DOMAIN reqs :
            (r.route = "start-quiz" /\ Left(r)) => r.userRole = "student"]_vars

(***************************************************************************)
(* Properties of the error handling.                                       *)
(***************************************************************************)
\* C15: whenever a query of a handler is rejected, the handler ends and the
\* request is answered with status 500, and no attempt to run the query
\* again is made (no handler stays suspended for the request).
C15_StoreFailureIsInternalError ==
    [][/\ \A route \in QueryFirstRoutes, sid \in SidInputs :
            FirstQueryFails(route, sid)
            => /\ last'.route = route
               /\ last'.status = 500
               /\ reqs' = reqs
       /\ \A r \in DOMAIN reqs :
            QueryFails(r)
            => /\ last'.route = r.route
               /\ last'.status = 500
               /\ BagCardinality(reqs') = BagCardinality(reqs) - 1]_vars

(***************************************************************************)
(* Properties of the attempts.                                             *)
(***************************************************************************)
\* C16: an attempt's row changes only in the step that takes it from
\* 'started' to 'completed'; the score and the end time of a completed
\* attempt never change, whatever submit-answers requests are in flight.
C16_ScoreWriteOnce ==
    [][\A i \in 1..Len(attempts) :
         /\ attempts'[i] # attempts[i]
              => attempts[i].status = "started" /\ attempts'[i].status = "completed"
         /\ attempts[i].status = "completed"
              => /\ attempts'[i].score = attempts[i].score
                 /\ attempts'[i].end_time = attempts[i].end_time]_vars

\* C17: in every state each attempt is 'started' with no score and no end
\* time, or 'completed' with both; no step removes an attempt or changes an
\* attempt's id, owner or question list; a row is added only by a
\* start-quiz handler, as 'started' and owned by the handler's user; the
\* status of an attempt changes only from 'started' to 'completed', in a
\* step of a submit-answers handler of the attempt's owner for this
\* attempt.
C17_AttemptLifecycle ==
    /\ [](\A i \in 1..Len(attempts) :
            \/ /\ attempts[i].status = "started"
               /\ attempts[i].score = NULL
               /\ attempts[i].end_time = NULL
            \/ /\ attempts[i].status = "completed"
               /\ attempts[i].score # NULL
               /\ attempts[i].end_time # NULL)
    /\ [][/\ Len(attempts') >= Len(attempts)
          /\ \A i \in 1..Len(attempts) :
               /\ attempts'[i].id = attempts[i].id
               /\ attempts'[i].user_id = attempts[i].user_id
               /\ attempts'[i].shuffled_questions = attempts[i].shuffled_questions
               /\ attempts[i].status = "completed" => attempts'[i].status = "completed"
               /\ attempts'[i].status # attempts[i].status
                    => \E r \in DOMAIN reqs :
                         /\ r.route = "submit-answers" /\ Left(r)
                         /\ r.attemptId = attempts[i].id
                         /\ r.userId = attempts[i].user_id
          /\ \A i \in (Len(attempts) + 1)..Len(attempts') :
               /\ attempts'[i].status = "started"
               /\ \E r \in DOMAIN reqs :
                    /\ r.route = "start-quiz" /\ Left(r)
                    /\ r.userId = attempts'[i].user_id]_vars

\* One attempt was completed with a score while another one is started.
C17_Witness ==
    /\ Len(attempts) = 2
    /\ \E i, j \in 1..Len(attempts) :
         /\ attempts[i].status = "completed" /\ attempts[i].score > 0
         /\ attempts[j].status = "started"

(***************************************************************************)
(* Properties of the session registry.                                     *)
(***************************************************************************)
\* C18: a request passes the gateway if and only if its token is in the
\* session registry; every entry of the registry belongs to the user named
\* in its token, with that user's role; the registry changes only when a
\* login whose password matches adds the entry of its user under the token
\* it returns, and when a logout removes the token of its header, every
\* other entry staying as it is (no entry goes away as time passes).
C18_SessionsAuthenticate ==
    /\ [](\A t \in DOMAIN sessions :
            \E i \in 1..Len(users) :
               /\ users[i].id = sessions[t].userId
               /\ users[i].role = sessions[t].role
               /\ t[1] = users[i].id)
    /\ [][/\ \A sid \in HeaderInputs :
               Received("questions", sid)
               => (sid \in DOMAIN sessions <=> last'.status \notin {401, 302})
          /\ \A sid \in HeaderInputs :
               (nreq' = nreq + 1 /\ reqs' = reqs /\ last'.route = "logout" /\ last'.sid = sid)
               => /\ DOMAIN sessions' = DOMAIN sessions \ {sid}
                  /\ \A t \in DOMAIN sessions' : sessions'[t] = sessions[t]
          /\ sessions' # sessions
               => \/ nreq' = nreq + 1 /\ reqs' = reqs /\ last'.route = "logout"
                  \/ \E r \in DOMAIN reqs :
                       /\ r.route = "login" /\ Left(r)
                       /\ bcryptCompare(r.password, r.user.password_hash)
                       /\ last'.status = 200
                       /\ DOMAIN sessions' = DOMAIN sessions \cup {last'.sessionId}
                       /\ sessions'[last'.sessionId] =
                            [userId |-> r.user.id, role |-> r.user.role]
                       /\ \A t \in DOMAIN sessions : sessions'[t] = sessions[t]]_vars

(***************************************************************************)
(* Properties that relate the tables.                                      *)
(***************************************************************************)
\* C19: whenever no handler is suspended, every user whose quiz_status is
\* one that the quiz routes write or the registration sets (that is, who is
\* not 'disqualified') is 'unattempted' exactly if the user owns no
\* attempt, owns a 'started' attempt if 'started', and owns a 'completed'
\* attempt if 'completed'.  (The store rejects no query in the behaviours
\* this is checked on.)
C19_StatusAgreesWithAttempts ==
    reqs = EmptyBag
    => \A i \in 1..Len(users) :
         users[i].quiz_status # "disqualified"
         => /\ users[i].quiz_status = "unattempted" <=> AttemptsOf(users[i].id) = {}
            /\ users[i].quiz_status = "started" => StartedAttemptsOf(users[i].id) # {}
            /\ users[i].quiz_status = "completed" => CompletedAttemptsOf(users[i].id) # {}

\* All requests have run to completion and left a user who is 'completed'
\* with one completed and one started attempt.
C19_Witness ==
    /\ reqs = EmptyBag
    /\ \E i \in 1..Len(users) :
         /\ users[i].quiz_status = "completed"
         /\ StartedAttemptsOf(users[i].id) # {}
         /\ CompletedAttemptsOf(users[i].id) # {}

\* C20: the completedQuizzes count of every metrics response equals the
\* number of rows of its results listing, and every listed row is the row
\* of a completed attempt: its owner's name and email, its score and its
\* times.
C20_MetricsConsistent ==
    [][\A r \in DOMAIN reqs :
         (r.route = "metrics" /\ r.pc = "results" /\ Left(r))
         => /\ last'.route = "metrics"
            /\ last'.status = 200
            /\ last'.completedQuizzes = Len(last'.rows)
            /\ \A k \in 1..Len(last'.rows) :
                 \E i \in CompletedAttempts :
                    last'.rows[k] = [full_name |-> NameOfOwner(i),
                                     email |-> UserById(attempts[i].user_id).email,
                                     score |-> attempts[i].score,
                                     created_at |-> attempts[i].created_at,
                                     end_time |-> attempts[i].end_time]]_vars

====
